---- MODULE Spec2Model ----
(***************************************************************************)
(* Real-time collaboration core of TaskFlow AI: the Socket.IO handlers of  *)
(* the backend (socketHandlers), the Task model's access rule              *)
(* (Task.hasAccess) and the task routes that write the Task Store.         *)
(***************************************************************************)
EXTENDS Integers, Sequences, FiniteSets, TLC

\* ---------------------------------------------------------------- bounds
MaxUser == 2     \* users
MaxTask == 1     \* task ids
MaxConn == 2     \* sockets ever opened
MaxPending == 2  \* handler runs suspended at an await at the same time
MaxCollab == 1   \* assignees plus sharedWith entries of a stored task
MaxShared == 2   \* sharedWith entries of a document given to hasAccess
MaxOwner == 1    \* users who create tasks (the users are interchangeable)
MaxSock == 4     \* sockets the client service ever creates

Users == 1..MaxUser
TaskIds == 1..MaxTask
Conns == 1..MaxConn
Owners == 1..MaxOwner
Socks == 1..MaxSock

\* ------------------------------------------------------------ Task model
\* Task.js: sharedWith[].permission enum, and the hierarchy array of hasAccess
permissions == <<"view", "edit", "admin">>

Perms == {permissions[i] : i \in 1..Len(permissions)}

\* Array.prototype.indexOf on the permissions array (0-based, -1 if absent)
indexOf(arr, x) ==
  IF \E i \in 1..Len(arr) : arr[i] = x
  THEN (CHOOSE i \in 1..Len(arr) : arr[i] = x /\ \A j \in 1..(i-1) : arr[j] # x) - 1
  ELSE -1

\* this.sharedWith.find(share => share.user === userId): index of the first
\* entry of the user, 0 when there is none
findShare(sharedWith, userId) ==
  IF \E i \in 1..Len(sharedWith) : sharedWith[i].user = userId
  THEN CHOOSE i \in 1..Len(sharedWith) :
         /\ sharedWith[i].user = userId
         /\ \A j \in 1..(i-1) : sharedWith[j].user # userId
  ELSE 0

\* mutant: the owner is not recognised
hasAccessNoOwner(task, userId, permission) ==
  IF userId \in task.assignees THEN TRUE
  ELSE LET k == findShare(task.sharedWith, userId) IN
       IF k = 0 THEN FALSE
       ELSE indexOf(permissions, task.sharedWith[k].permission)
              >= indexOf(permissions, permission)

\* mutant: the share hierarchy is compared the wrong way round
hasAccessRankFlipped(task, userId, permission) ==
  IF task.owner = userId THEN TRUE
  ELSE IF userId \in task.assignees THEN TRUE
  ELSE LET k == findShare(task.sharedWith, userId) IN
       IF k = 0 THEN FALSE
       ELSE indexOf(permissions, task.sharedWith[k].permission)
              <= indexOf(permissions, permission)

\* taskSchema.methods.hasAccess
hasAccess(task, userId, permission) ==
  IF task.owner = userId THEN TRUE
  ELSE IF userId \in task.assignees THEN TRUE
  ELSE LET k == findShare(task.sharedWith, userId) IN
       IF k = 0 THEN FALSE
       ELSE indexOf(permissions, task.sharedWith[k].permission)
              >= indexOf(permissions, permission)

\* sequences over S of length at most n
SeqsUpTo(S, n) == UNION {[1..k -> S] : k \in 0..n}

ShareEntries == [user : Users, permission : Perms]

\* a task document as the core reads it: owner, assignees, sharedWith
TaskDoc(o, as, sh) == [st |-> "live", owner |-> o, assignees |-> as, sharedWith |-> sh]

NoTask == [st |-> "new", owner |-> 0, assignees |-> {}, sharedWith |-> <<>>]

VARIABLES
  tasks,          \* Task Store: task id -> document
  status,         \* socket -> "new" | "open" | "closed"
  userOf,         \* socket.userId (0 before the handshake)
  connectedUsers, \* the connectedUsers Map: userId -> socket id (0: no entry)
  taskRoom,       \* adapter room task:<id> -> set of sockets
  userRoom,       \* adapter room user:<id> -> set of sockets
  queue,          \* handlers suspended at their await of the Task Store, in
                  \* the order their messages arrived
  joinView,       \* <<socket, task>>: the socket is in task:<id> and the
                  \* user held view on the task when the join was admitted
  joinEdit,       \* the same for edit
  wasIn,          \* the task rooms as they were before the last step
  sent,           \* socket -> events delivered to it by the last step
  acc,            \* the last evaluation of hasAccess
  fields,         \* task 1: status, title, completedAt, completedBy
  socket,         \* client SocketService: this.socket (0: null)
  connected,      \* client SocketService: this.connected
  clientSockets   \* the sockets io() has created for the service

vars == <<tasks, status, userOf, connectedUsers, taskRoom, userRoom,
          queue, joinView, joinEdit, wasIn, sent, acc, fields, socket, connected,
          clientSockets>>

\* the client service object
cliVars == <<socket, connected, clientSockets>>

sockVars == <<status, userOf, connectedUsers, taskRoom, userRoom, queue, joinView,
              joinEdit>>

\* the suspended handler runs
pending == {queue[i] : i \in 1..Len(queue)}

\* the queue without (the oldest occurrence of) a handler run that resumes
Resume(op) ==
  LET k == CHOOSE i \in 1..Len(queue) :
             queue[i] = op /\ \A j \in 1..(i-1) : queue[j] # op
  IN  [i \in 1..(Len(queue)-1) |-> IF i < k THEN queue[i] ELSE queue[i+1]]

\* ------------------------------------------------------------- delivery
Ev(type, c, t, u, arg, target) ==
  [type |-> type, from |-> c, task |-> t, user |-> u, arg |-> arg, target |-> target]

Emit(to, ev) == [to |-> to, ev |-> ev]

NoneSent == [d \in Conns |-> <<>>]

\* what every socket receives from the emits of one handler run, in order
Delivered(emits) ==
  [d \in Conns |->
     LET s == SelectSeq(emits, LAMBDA e : d \in e.to)
     IN  [i \in 1..Len(s) |-> s[i].ev]]

\* mutant: the answer to the requester goes to every connected socket
SocketEmitAll(c) == {d \in Conns : status[d] = "open"}

\* socket.emit(...): to the socket itself, dropped once it is closed
SocketEmit(c) == IF status[c] = "open" THEN {c} ELSE {}

\* mutant: the broadcast comes back to the sender alone
SocketToSender(c, room) == {d \in room : d = c /\ status[d] = "open"}

\* mutant: the sender is not excluded
SocketToAll(c, room) == {d \in room : status[d] = "open"}

\* socket.to(room).emit(...): the room's sockets except the sender
SocketTo(c, room) == {d \in room : d # c /\ status[d] = "open"}

\* io.to(room).emit(...): every socket of the room
IoTo(room) == {d \in room : status[d] = "open"}

\* mutant: joining a room the socket is already in takes it out again
SocketJoinToggle(c, room) ==
  IF status[c] # "open" THEN room
  ELSE IF c \in room THEN room \ {c} ELSE room \cup {c}

\* mutant: join also adds a socket that has already been closed
SocketJoinAlways(c, room) == room \cup {c}

\* socket.join(room): adds the socket; a no-op on a closed socket
SocketJoin(c, room) == IF status[c] = "open" THEN room \cup {c} ELSE room

Op(kind, c, t, u, arg, target) ==
  [kind |-> kind, conn |-> c, task |-> t, user |-> u, arg |-> arg, target |-> target]

NoAcc == [task |-> NoTask, user |-> 0, permission |-> "view", granted |-> FALSE]

\* number of events of a type in a delivery sequence
Count(s, type) == Cardinality({i \in 1..Len(s) : s[i].type = type})

\* ----------------------------------------------------------- Task Store
\* Task.findById(taskId): the document, or null (modelled by st # "live")
findById(t) == tasks[t]

\* the $or filter used by join:task and broadcastUserStatus
MatchesUser(task, userId) ==
  \/ task.owner = userId
  \/ userId \in task.assignees
  \/ \E i \in 1..Len(task.sharedWith) : task.sharedWith[i].user = userId

\* mutant: the filter on the user is dropped from the query
findOneForUserAnyone(t, userId) == tasks[t].st = "live"

\* Task.findOne({_id: taskId, $or: [...]}) of join:task: found or not
findOneForUser(t, userId) == tasks[t].st = "live" /\ MatchesUser(tasks[t], userId)

\* the documents a new task may be created with
NewTaskDocs ==
  {d \in {TaskDoc(o, as, sh) :
            o \in Owners, as \in SUBSET Users, sh \in SeqsUpTo(ShareEntries, MaxCollab)} :
     Cardinality(d.assignees) + Len(d.sharedWith) <= MaxCollab}

\* router.post('/'): new Task({...req.body, owner: userId}).save()
CreateTask(t, doc) ==
  /\ tasks[t].st = "new"
  /\ \A s \in 1..(t-1) : tasks[s].st # "new"
  /\ tasks' = [tasks EXCEPT ![t] = doc]
  /\ sent' = NoneSent
  /\ wasIn' = taskRoom
  /\ UNCHANGED <<sockVars, acc, fields, cliVars>>

\* ---------------------------------------------------------- connection
\* mutant: the socket is put into every user's inbox room
ConnectEveryInbox(c, u) ==
  /\ status[c] = "new"
  /\ \A d \in 1..(c-1) : status[d] # "new"
  /\ Len(queue) < MaxPending
  /\ status' = [status EXCEPT ![c] = "open"]
  /\ userOf' = [userOf EXCEPT ![c] = u]
  /\ connectedUsers' = [connectedUsers EXCEPT ![u] = c]
  /\ userRoom' = [v \in Users |-> userRoom[v] \cup {c}]
  /\ queue' = Append(queue, Op("presence", c, 0, u, "online", 0))
  /\ sent' = Delivered(<<Emit({c}, Ev("connected", c, 0, u, "", 0))>>)
  /\ wasIn' = taskRoom
  /\ UNCHANGED <<tasks, taskRoom, joinView, joinEdit, acc, fields, cliVars>>

\* io.on('connection'): register, join the inbox room, announce presence
Connect(c, u) ==
  /\ status[c] = "new"
  /\ \A d \in 1..(c-1) : status[d] # "new"
  /\ Len(queue) < MaxPending
  /\ status' = [status EXCEPT ![c] = "open"]
  /\ userOf' = [userOf EXCEPT ![c] = u]
  /\ connectedUsers' = [connectedUsers EXCEPT ![u] = c]
  /\ userRoom' = [userRoom EXCEPT ![u] = @ \cup {c}]
  /\ queue' = Append(queue, Op("presence", c, 0, u, "online", 0))
  /\ sent' = Delivered(<<Emit({c}, Ev("connected", c, 0, u, "", 0))>>)
  /\ wasIn' = taskRoom
  /\ UNCHANGED <<tasks, taskRoom, joinView, joinEdit, acc, fields, cliVars>>

\* the elements of S (a subset of 1..n) in ascending order
Ascending(S, n) == SelectSeq([i \in 1..n |-> i], LAMBDA x : x \in S)

\* the rooms of every kind without socket c (Socket.IO leaves all rooms of a
\* closing socket before the 'disconnect' handler runs)
LeaveAll(c, rooms) == [r \in DOMAIN rooms |-> rooms[r] \ {c}]

\* socket.on('disconnect')
Disconnect(c) ==
  /\ status[c] = "open"
  /\ Len(queue) < MaxPending
  /\ LET u == userOf[c]
         tr == LeaveAll(c, taskRoom)
         \* Array.from(socket.rooms).filter(room.startsWith('task:'))
         rooms == Ascending({t \in TaskIds : c \in tr[t]}, MaxTask)
         emits == [i \in 1..Len(rooms) |->
                     Emit(SocketTo(c, tr[rooms[i]]),
                          Ev("user:left", c, rooms[i], u, "disconnected", 0))]
     IN  /\ status' = [status EXCEPT ![c] = "closed"]
         /\ userOf' = [userOf EXCEPT ![c] = 0]
         /\ taskRoom' = tr
         /\ userRoom' = LeaveAll(c, userRoom)
         /\ joinView' = {p \in joinView : p[1] # c}
         /\ joinEdit' = {p \in joinEdit : p[1] # c}
         /\ connectedUsers' = [connectedUsers EXCEPT ![u] = 0]
         /\ queue' = Append(queue, Op("presence", c, 0, u, "offline", 0))
         /\ sent' = Delivered(emits)
  /\ wasIn' = taskRoom
  /\ UNCHANGED <<tasks, acc, fields, cliVars>>

\* mutant: the users a task is shared with are forgotten
collaboratorsNoShared(userId) ==
  UNION {({tasks[t].owner} \cup tasks[t].assignees) \ {userId} :
         t \in {x \in TaskIds : tasks[x].st = "live" /\ MatchesUser(tasks[x], userId)}}

\* the collaborator set computed by broadcastUserStatus
collaborators(userId) ==
  UNION {({tasks[t].owner} \cup tasks[t].assignees
           \cup {tasks[t].sharedWith[i].user : i \in 1..Len(tasks[t].sharedWith)})
          \ {userId} :
         t \in {x \in TaskIds : tasks[x].st = "live" /\ MatchesUser(tasks[x], userId)}}

\* broadcastUserStatus, from the return of Task.find to the end
BroadcastUserStatus(op, fail) ==
  /\ op \in pending
  /\ op.kind = "presence"
  /\ LET cs == Ascending(collaborators(op.user), MaxUser)
         emits == IF fail THEN <<>>
                  ELSE [i \in 1..Len(cs) |->
                          Emit(IoTo(userRoom[cs[i]]),
                               Ev("user:status", op.conn, 0, op.user, op.arg, 0))]
     IN  /\ sent' = Delivered(emits)
  /\ queue' = Resume(op)
  /\ wasIn' = taskRoom
  /\ UNCHANGED <<tasks, status, userOf, connectedUsers, taskRoom, userRoom,
                 joinView, joinEdit, acc, fields, cliVars>>

\* a client message whose handler awaits the Task Store: up to the await
Receive(kind, c, t, u, target) ==
  /\ status[c] = "open"
  /\ Len(queue) < MaxPending
  /\ queue' = Append(queue, Op(kind, c, t, u, "", target))
  /\ sent' = NoneSent
  /\ wasIn' = taskRoom
  /\ UNCHANGED <<tasks, status, userOf, connectedUsers, taskRoom, userRoom,
                 joinView, joinEdit, acc, fields, cliVars>>

\* socket.on('join:task'), up to the await of Task.findOne
JoinTaskRecv(c, t) == Receive("join", c, t, userOf[c], 0)

\* mutant: the socket is put into the room before the query can fail
JoinTaskHalfJoined(op, fail) ==
  /\ op \in pending
  /\ op.kind = "join"
  /\ LET c == op.conn
         t == op.task
         u == op.user
         found == findOneForUser(t, u)
         room == IF fail \/ found THEN SocketJoin(c, taskRoom[t]) ELSE taskRoom[t]
         emits ==
           IF fail
           THEN <<Emit(SocketEmit(c), Ev("error", c, t, u, "Failed to join task room", 0))>>
           ELSE IF found
           THEN <<Emit(SocketEmit(c), Ev("joined:task", c, t, u, "", 0)),
                  Emit(SocketTo(c, room), Ev("user:joined", c, t, u, "", 0))>>
           ELSE <<Emit(SocketEmit(c), Ev("error", c, t, u, "Access denied to task room", 0))>>
     IN  /\ taskRoom' = [taskRoom EXCEPT ![t] = room]
         /\ joinView' = IF c \in room /\ c \notin taskRoom[t]
                           /\ tasks[t].st = "live" /\ hasAccess(tasks[t], u, "view")
                        THEN joinView \cup {<<c, t>>} ELSE joinView
         /\ joinEdit' = IF c \in room /\ c \notin taskRoom[t]
                           /\ tasks[t].st = "live" /\ hasAccess(tasks[t], u, "edit")
                        THEN joinEdit \cup {<<c, t>>} ELSE joinEdit
         /\ sent' = Delivered(emits)
  /\ queue' = Resume(op)
  /\ wasIn' = taskRoom
  /\ UNCHANGED <<tasks, status, userOf, connectedUsers, userRoom, acc, fields, cliVars>>

\* socket.on('join:task'), from the return of Task.findOne
JoinTask(op, fail) ==
  /\ op \in pending
  /\ op.kind = "join"
  /\ LET c == op.conn
         t == op.task
         u == op.user
         found == findOneForUser(t, u)
         room == IF ~fail /\ found THEN SocketJoin(c, taskRoom[t]) ELSE taskRoom[t]
         emits ==
           IF fail
           THEN <<Emit(SocketEmit(c), Ev("error", c, t, u, "Failed to join task room", 0))>>
           ELSE IF found
           THEN <<Emit(SocketEmit(c), Ev("joined:task", c, t, u, "", 0)),
                  Emit(SocketTo(c, room), Ev("user:joined", c, t, u, "", 0))>>
           ELSE <<Emit(SocketEmit(c), Ev("error", c, t, u, "Access denied to task room", 0))>>
     IN  /\ taskRoom' = [taskRoom EXCEPT ![t] = room]
         /\ joinView' = IF c \in room /\ c \notin taskRoom[t]
                           /\ tasks[t].st = "live" /\ hasAccess(tasks[t], u, "view")
                        THEN joinView \cup {<<c, t>>} ELSE joinView
         /\ joinEdit' = IF c \in room /\ c \notin taskRoom[t]
                           /\ tasks[t].st = "live" /\ hasAccess(tasks[t], u, "edit")
                        THEN joinEdit \cup {<<c, t>>} ELSE joinEdit
         /\ sent' = Delivered(emits)
  /\ queue' = Resume(op)
  /\ wasIn' = taskRoom
  /\ UNCHANGED <<tasks, status, userOf, connectedUsers, userRoom, acc, fields, cliVars>>

\* mutant: the socket is not taken out of the room
LeaveTaskStays(c, t) ==
  /\ status[c] = "open"
  /\ LET u == userOf[c]
         room == taskRoom[t]
     IN  /\ taskRoom' = [taskRoom EXCEPT ![t] = room]
         /\ joinView' = joinView \ {<<c, t>>}
         /\ joinEdit' = joinEdit \ {<<c, t>>}
         /\ sent' = Delivered(<<Emit(SocketTo(c, room), Ev("user:left", c, t, u, "", 0)),
                                Emit(SocketEmit(c), Ev("left:task", c, t, u, "", 0))>>)
  /\ wasIn' = taskRoom
  /\ UNCHANGED <<tasks, status, userOf, connectedUsers, userRoom, queue, acc, fields, cliVars>>

\* socket.on('leave:task')
LeaveTask(c, t) ==
  /\ status[c] = "open"
  /\ LET u == userOf[c]
         room == taskRoom[t] \ {c}
     IN  /\ taskRoom' = [taskRoom EXCEPT ![t] = room]
         /\ joinView' = joinView \ {<<c, t>>}
         /\ joinEdit' = joinEdit \ {<<c, t>>}
         /\ sent' = Delivered(<<Emit(SocketTo(c, room), Ev("user:left", c, t, u, "", 0)),
                                Emit(SocketEmit(c), Ev("left:task", c, t, u, "", 0))>>)
  /\ wasIn' = taskRoom
  /\ UNCHANGED <<tasks, status, userOf, connectedUsers, userRoom, queue, acc, fields, cliVars>>

\* a handler that only emits: no membership, registry or store change
Publish(emits) ==
  /\ sent' = Delivered(emits)
  /\ wasIn' = taskRoom
  /\ UNCHANGED <<tasks, status, userOf, connectedUsers, taskRoom, userRoom,
                 joinView, joinEdit, acc, fields, cliVars>>

\* mutant: the handler only checks that the task exists
DeniedTaskMissing(t, u, permission) == findById(t).st # "live"

\* the access check of the publishing handlers:
\* !task || !task.hasAccess(socket.userId, permission)
Denied(t, u, permission) ==
  findById(t).st # "live" \/ ~hasAccess(findById(t), u, permission)

\* socket.on('task:update'), up to the await of Task.findById
TaskUpdateRecv(c, t) == Receive("update", c, t, userOf[c], 0)

\* socket.on('task:update'), from the return of Task.findById
TaskUpdate(op, fail) ==
  /\ op \in pending
  /\ op.kind = "update"
  /\ queue' = Resume(op)
  /\ LET c == op.conn
         t == op.task
         u == op.user
         ok == ~fail /\ ~Denied(t, u, "edit")
     IN  Publish(IF fail
           THEN <<Emit(SocketEmit(c), Ev("error", c, t, u, "Failed to broadcast task update", 0))>>
           ELSE IF ~ok
           THEN <<Emit(SocketEmit(c), Ev("error", c, t, u, "Access denied for task update", 0))>>
           ELSE <<Emit(SocketTo(c, taskRoom[t]), Ev("task:updated", c, t, u, "", 0))>>)

\* socket.on('task:comment'), up to the await of Task.findById
TaskCommentRecv(c, t) == Receive("comment", c, t, userOf[c], 0)

\* socket.on('task:comment'), from the return of Task.findById
TaskComment(op, fail) ==
  /\ op \in pending
  /\ op.kind = "comment"
  /\ queue' = Resume(op)
  /\ LET c == op.conn
         t == op.task
         u == op.user
         ok == ~fail /\ ~Denied(t, u, "view")
     IN  Publish(IF fail
           THEN <<Emit(SocketEmit(c), Ev("error", c, t, u, "Failed to broadcast comment", 0))>>
           ELSE IF ~ok
           THEN <<Emit(SocketEmit(c), Ev("error", c, t, u, "Access denied for commenting", 0))>>
           ELSE <<Emit(IoTo(taskRoom[t]), Ev("task:comment:new", c, t, u, "", 0))>>)

\* socket.on('task:typing')
TaskTyping(c, t) ==
  /\ status[c] = "open"
  /\ UNCHANGED queue
  /\ Publish(<<Emit(SocketTo(c, taskRoom[t]), Ev("task:typing:status", c, t, userOf[c], "", 0))>>)

\* [owner, ...assignees, ...sharedWith].filter(userId => userId !== socket.userId)
notificationRecipients(task, userId) ==
  SelectSeq(<<task.owner>> \o Ascending(task.assignees, MaxUser)
              \o [i \in 1..Len(task.sharedWith) |-> task.sharedWith[i].user],
            LAMBDA x : x # userId)

\* socket.on('task:status:change'), up to the await of Task.findById
TaskStatusChangeRecv(c, t) == Receive("status", c, t, userOf[c], 0)

\* socket.on('task:status:change'), from the return of Task.findById
TaskStatusChange(op, fail) ==
  /\ op \in pending
  /\ op.kind = "status"
  /\ queue' = Resume(op)
  /\ LET c == op.conn
         t == op.task
         u == op.user
         ok == ~fail /\ ~Denied(t, u, "edit")
         rs == notificationRecipients(findById(t), u)
     IN  Publish(IF fail
           THEN <<Emit(SocketEmit(c), Ev("error", c, t, u, "Failed to broadcast status change", 0))>>
           ELSE IF ~ok
           THEN <<Emit(SocketEmit(c), Ev("error", c, t, u, "Access denied for status change", 0))>>
           ELSE <<Emit(SocketTo(c, taskRoom[t]), Ev("task:status:changed", c, t, u, "", 0))>>
                \o [i \in 1..Len(rs) |->
                      Emit(IoTo(userRoom[rs[i]]), Ev("notification", c, t, u, "", 0))])

\* socket.on('ai:chat')
AiChat(c) ==
  /\ status[c] = "open"
  /\ UNCHANGED queue
  /\ Publish(<<Emit(SocketTo(c, userRoom[userOf[c]]), Ev("ai:chat:sync", c, 0, userOf[c], "", 0))>>)

\* socket.on('collaboration:invite'), up to the await of Task.findById
CollaborationInviteRecv(c, t, invitedUserId) ==
  Receive("invite", c, t, userOf[c], invitedUserId)

\* socket.on('collaboration:invite'), from the return of Task.findById
CollaborationInvite(op, fail) ==
  /\ op \in pending
  /\ op.kind = "invite"
  /\ queue' = Resume(op)
  /\ LET c == op.conn
         t == op.task
         u == op.user
         ok == ~fail /\ ~Denied(t, u, "admin")
     IN  Publish(IF fail
           THEN <<Emit(SocketEmit(c), Ev("error", c, t, u, "Failed to send collaboration invite", 0))>>
           ELSE IF ~ok
           THEN <<Emit(SocketEmit(c), Ev("error", c, t, u, "Access denied for sending invites", 0))>>
           ELSE <<Emit(IoTo(userRoom[op.target]), Ev("collaboration:invited", c, t, u, "", op.target)),
                  Emit(SocketEmit(c), Ev("collaboration:invite:sent", c, t, u, "", op.target))>>)

\* socket.on('user:activity')
UserActivity(c, activity, t) ==
  /\ status[c] = "open"
  /\ UNCHANGED queue
  /\ Publish(IF activity = "task_view"
       THEN <<Emit(SocketTo(c, taskRoom[t]), Ev("user:activity", c, t, userOf[c], activity, 0))>>
       ELSE <<>>)

\* the loop of router.post('/:id/share') over userIds
RECURSIVE shareLoop(_, _, _)
shareLoop(sharedWith, userIds, permission) ==
  IF userIds = <<>> THEN sharedWith
  ELSE LET k == findShare(sharedWith, Head(userIds)) IN
       shareLoop(IF k = 0
                 THEN Append(sharedWith, [user |-> Head(userIds), permission |-> permission])
                 ELSE [sharedWith EXCEPT ![k].permission = permission],
                 Tail(userIds), permission)

\* router.post('/:id/share') behind checkTaskAccess('admin')
ShareTask(t, userIds, permission) ==
  /\ tasks[t].st = "live"
  /\ \E actor \in Users : hasAccess(tasks[t], actor, "admin")
  /\ LET sh == shareLoop(tasks[t].sharedWith, userIds, permission)
     IN  /\ Cardinality(tasks[t].assignees) + Len(sh) <= MaxCollab
         /\ tasks' = [tasks EXCEPT ![t].sharedWith = sh]
  /\ sent' = NoneSent
  /\ wasIn' = taskRoom
  /\ UNCHANGED <<sockVars, acc, fields, cliVars>>

\* router.delete('/:id') behind checkTaskAccess('admin')
DeleteTask(t) ==
  /\ tasks[t].st = "live"
  /\ \E actor \in Users : hasAccess(tasks[t], actor, "admin")
  /\ tasks' = [tasks EXCEPT ![t] = [NoTask EXCEPT !.st = "deleted"]]
  /\ sent' = NoneSent
  /\ wasIn' = taskRoom
  /\ UNCHANGED <<sockVars, acc, fields, cliVars>>

\* Task.js: the status enum
Statuses == {"todo", "in-progress", "review", "completed", "cancelled"}

Titles == {"a", "b"}

\* completedAt is a date or undefined (FALSE); completedBy a user or undefined (0)
NoFields == [status |-> "todo", title |-> "a", completedAt |-> FALSE, completedBy |-> 0]

\* new SocketService(): socket = null, connected = false, no socket created
InitClient ==
  /\ socket = 0
  /\ connected = FALSE
  /\ clientSockets = [n \in Socks |-> "none"]

Init ==
  /\ tasks = [t \in TaskIds |-> NoTask]
  /\ status = [c \in Conns |-> "new"]
  /\ userOf = [c \in Conns |-> 0]
  /\ connectedUsers = [u \in Users |-> 0]
  /\ taskRoom = [t \in TaskIds |-> {}]
  /\ userRoom = [u \in Users |-> {}]
  /\ queue = <<>>
  /\ joinView = {}
  /\ joinEdit = {}
  /\ wasIn = [t \in TaskIds |-> {}]
  /\ sent = NoneSent
  /\ acc = NoAcc
  /\ fields = NoFields
  /\ InitClient

Next ==
  \/ \E t \in TaskIds, doc \in NewTaskDocs : CreateTask(t, doc)
  \/ \E t \in TaskIds, userIds \in SeqsUpTo(Users, MaxCollab) \ {<<>>},
        permission \in Perms : ShareTask(t, userIds, permission)
  \/ \E t \in TaskIds : DeleteTask(t)
  \/ \E c \in Conns, u \in Users : Connect(c, u)
  \/ \E c \in Conns : Disconnect(c)
  \/ \E op \in pending, fail \in BOOLEAN : BroadcastUserStatus(op, fail)
  \/ \E c \in Conns, t \in TaskIds : JoinTaskRecv(c, t)
  \/ \E op \in pending, fail \in BOOLEAN : JoinTask(op, fail)
  \/ \E c \in Conns, t \in TaskIds : LeaveTask(c, t)
  \/ \E c \in Conns, t \in TaskIds : TaskUpdateRecv(c, t)
  \/ \E op \in pending, fail \in BOOLEAN : TaskUpdate(op, fail)
  \/ \E c \in Conns, t \in TaskIds : TaskCommentRecv(c, t)
  \/ \E op \in pending, fail \in BOOLEAN : TaskComment(op, fail)
  \/ \E c \in Conns, t \in TaskIds : TaskTyping(c, t)
  \/ \E c \in Conns, t \in TaskIds : TaskStatusChangeRecv(c, t)
  \/ \E op \in pending, fail \in BOOLEAN : TaskStatusChange(op, fail)
  \/ \E c \in Conns : AiChat(c)
  \/ \E c \in Conns, t \in TaskIds, invitedUserId \in Users :
        CollaborationInviteRecv(c, t, invitedUserId)
  \/ \E op \in pending, fail \in BOOLEAN : CollaborationInvite(op, fail)
  \/ \E c \in Conns, activity \in {"task_view", "other"}, t \in TaskIds :
        UserActivity(c, activity, t)

Spec == Init /\ [][Next]_vars

\* ------------------------------------------------- access evaluation alone
\* the documents the schema admits: router.post and router.put store owner,
\* assignees and sharedWith as the request body gives them
AccessDocs ==
  {TaskDoc(o, as, sh) :
     o \in Users, as \in SUBSET Users, sh \in SeqsUpTo(ShareEntries, MaxShared)}

InitAccess ==
  /\ \E doc \in AccessDocs : tasks = [t \in TaskIds |-> IF t = 1 THEN doc ELSE NoTask]
  /\ status = [c \in Conns |-> "new"]
  /\ userOf = [c \in Conns |-> 0]
  /\ connectedUsers = [u \in Users |-> 0]
  /\ taskRoom = [t \in TaskIds |-> {}]
  /\ userRoom = [u \in Users |-> {}]
  /\ queue = <<>>
  /\ joinView = {}
  /\ joinEdit = {}
  /\ wasIn = [t \in TaskIds |-> {}]
  /\ sent = NoneSent
  /\ acc = NoAcc
  /\ fields = NoFields
  /\ InitClient

\* task.hasAccess(userId, permission) on a stored document
Evaluate(t, userId, permission) ==
  /\ tasks[t].st = "live"
  /\ acc' = [task |-> tasks[t], user |-> userId, permission |-> permission,
             granted |-> hasAccess(tasks[t], userId, permission)]
  /\ wasIn' = taskRoom
  /\ UNCHANGED <<tasks, sockVars, sent, fields, cliVars>>

NextAccess ==
  \E t \in TaskIds, userId \in Users, permission \in Perms : Evaluate(t, userId, permission)

SpecAccess == InitAccess /\ [][NextAccess]_vars

\* ------------------------------------------- status change notifications
\* the sockets are connected, every socket whose user the task admits has
\* joined task:1, and no handler is suspended; the task is any document the
\* schema admits (the share route adds a sharedWith entry for any user id,
\* an assignee or the owner included)
InitNotify ==
  /\ \E doc \in AccessDocs : tasks = [t \in TaskIds |-> IF t = 1 THEN doc ELSE NoTask]
  /\ status = [c \in Conns |-> "open"]
  /\ userOf \in [Conns -> Users]
  /\ connectedUsers =
       [u \in Users |->
          IF \E c \in Conns : userOf[c] = u
          THEN CHOOSE c \in Conns : userOf[c] = u /\ \A d \in Conns : userOf[d] = u => d <= c
          ELSE 0]
  /\ userRoom = [u \in Users |-> {c \in Conns : userOf[c] = u}]
  /\ taskRoom = [t \in TaskIds |->
                   {c \in Conns : tasks[t].st = "live" /\ MatchesUser(tasks[t], userOf[c])}]
  /\ joinView = {<<c, t>> \in Conns \X TaskIds : c \in taskRoom[t]}
  /\ joinEdit = {<<c, t>> \in Conns \X TaskIds :
                   c \in taskRoom[t] /\ hasAccess(tasks[t], userOf[c], "edit")}
  /\ wasIn = taskRoom
  /\ queue = <<>>
  /\ sent = NoneSent
  /\ acc = NoAcc
  /\ fields = NoFields
  /\ InitClient

NextNotify ==
  \/ \E c \in Conns, t \in TaskIds : TaskStatusChangeRecv(c, t)
  \/ \E op \in pending, fail \in BOOLEAN : TaskStatusChange(op, fail)

SpecNotify == InitNotify /\ [][NextNotify]_vars

\* ------------------------------------------------- the task update route
\* req.body of PUT /api/tasks/:id: a status or none, a title or none
Bodies == [status : Statuses \cup {"absent"}, title : Titles \cup {"absent"}]

\* router.put('/:id'): the completion fields put into updateData, then
\* Object.assign(task, updateData)
assignUpdate(task, body, userId) ==
  LET st == IF body.status = "absent" THEN task.status ELSE body.status
      ti == IF body.title = "absent" THEN task.title ELSE body.title
  IN  IF body.status = "completed" /\ task.status # "completed"
      THEN [status |-> st, title |-> ti, completedAt |-> TRUE, completedBy |-> userId]
      ELSE IF body.status # "completed" /\ task.status = "completed"
      THEN [status |-> st, title |-> ti, completedAt |-> FALSE, completedBy |-> 0]
      ELSE [task EXCEPT !.status = st, !.title = ti]

\* taskSchema.pre('save'): stored is the document as loaded, doc as saved
preSave(stored, doc) ==
  IF doc.status # stored.status   \* this.isModified('status')
  THEN IF doc.status = "completed" /\ ~doc.completedAt
       THEN [doc EXCEPT !.completedAt = TRUE]
       ELSE IF doc.status # "completed"
       THEN [doc EXCEPT !.completedAt = FALSE, !.completedBy = 0]
       ELSE doc
  ELSE doc

\* router.put('/:id') behind checkTaskAccess('edit')
UpdateTask(t, userId, body) ==
  /\ t = 1
  /\ tasks[t].st = "live"
  /\ hasAccess(tasks[t], userId, "edit")
  /\ fields' = preSave(fields, assignUpdate(fields, body, userId))
  /\ sent' = NoneSent
  /\ wasIn' = taskRoom
  /\ UNCHANGED <<tasks, sockVars, acc, cliVars>>

\* a task as router.post('/') creates it when the body names no completion
InitPut ==
  /\ \E doc \in AccessDocs : tasks = [t \in TaskIds |-> IF t = 1 THEN doc ELSE NoTask]
  /\ status = [c \in Conns |-> "new"]
  /\ userOf = [c \in Conns |-> 0]
  /\ connectedUsers = [u \in Users |-> 0]
  /\ taskRoom = [t \in TaskIds |-> {}]
  /\ userRoom = [u \in Users |-> {}]
  /\ queue = <<>>
  /\ joinView = {}
  /\ joinEdit = {}
  /\ wasIn = [t \in TaskIds |-> {}]
  /\ sent = NoneSent
  /\ acc = NoAcc
  /\ \E st \in Statuses \ {"completed"}, ti \in Titles :
       fields = [NoFields EXCEPT !.status = st, !.title = ti]
  /\ InitClient

NextPut ==
  \E t \in TaskIds, userId \in Users, body \in Bodies : UpdateTask(t, userId, body)

SpecPut == InitPut /\ [][NextPut]_vars

\* ------------------------------------------------ the client SocketService
\* what the client service does not touch
serverVars == <<tasks, sockVars, wasIn, sent, acc, fields>>

\* SocketService.connect(): returns at once when connected, else io(...)
\* creates a new socket, which starts connecting
ClientConnect ==
  /\ ~connected
  /\ \E n \in Socks :
       /\ clientSockets[n] = "none"
       /\ \A m \in 1..(n-1) : clientSockets[m] # "none"
       /\ clientSockets' = [clientSockets EXCEPT ![n] = "connecting"]
       /\ socket' = n
  /\ UNCHANGED <<connected, serverVars>>

\* the 'connect' event of a socket the service created
OnConnect(n) ==
  /\ clientSockets[n] = "connecting"
  /\ clientSockets' = [clientSockets EXCEPT ![n] = "open"]
  /\ connected' = TRUE
  /\ UNCHANGED <<socket, serverVars>>

\* the 'disconnect' event of a socket the service created: the transport is
\* lost and the socket reconnects (reconnection: true), or the server closed it
OnDisconnect(n, reconnects) ==
  /\ clientSockets[n] = "open"
  /\ clientSockets' = [clientSockets EXCEPT ![n] = IF reconnects THEN "connecting" ELSE "closed"]
  /\ connected' = FALSE
  /\ UNCHANGED <<socket, serverVars>>

\* SocketService.disconnect()
ClientDisconnect ==
  /\ socket # 0
  /\ clientSockets' = [clientSockets EXCEPT ![socket] = "closed"]
  /\ socket' = 0
  /\ connected' = FALSE
  /\ UNCHANGED serverVars

NextClient ==
  \/ ClientConnect
  \/ \E n \in Socks : OnConnect(n)
  \/ \E n \in Socks, reconnects \in BOOLEAN : OnDisconnect(n, reconnects)
  \/ ClientDisconnect

SpecClient == Init /\ [][NextClient]_vars

\* ------------------------------------------------------ claims: vocabulary
\* rank order view(0) < edit(1) < admin(2)
Rank(p) == CASE p = "view" -> 0 [] p = "edit" -> 1 [] p = "admin" -> 2

SharedUsers(task) == {task.sharedWith[i].user : i \in 1..Len(task.sharedWith)}

\* the user is owner, assignee or shared-with on the task
RelatedTo(task, u) ==
  task.st = "live" /\ (task.owner = u \/ u \in task.assignees \/ u \in SharedUsers(task))

Evaluated == acc.user # 0

\* C1 (as claimed): an actor who is assignee, not owner and has no sharedWith
\* entry is granted view and edit and denied admin.
C1_AssigneeNoAdmin ==
  (Evaluated /\ acc.user \in acc.task.assignees /\ acc.user # acc.task.owner
     /\ acc.user \notin SharedUsers(acc.task))
  => (acc.granted <=> acc.permission \in {"view", "edit"})

\* C2: the owner is granted view, edit and admin, whatever assignees and
\* sharedWith hold.
C2_OwnerGranted ==
  (Evaluated /\ acc.user = acc.task.owner) => acc.granted

C2_Witness ==
  /\ Evaluated
  /\ acc.user = acc.task.owner
  /\ acc.permission = "admin"
  /\ acc.user \notin acc.task.assignees
  /\ \E i \in 1..Len(acc.task.sharedWith) :
       acc.task.sharedWith[i].user = acc.user /\ acc.task.sharedWith[i].permission = "view"
  /\ acc.granted

\* C3 (as claimed): for an actor who is neither owner nor assignee, access is
\* granted iff SOME sharedWith entry of the actor has rank(p) >= rank(r).
C3_SomeShareEntry ==
  (Evaluated /\ acc.user # acc.task.owner /\ acc.user \notin acc.task.assignees)
  => (acc.granted <=>
        \E i \in 1..Len(acc.task.sharedWith) :
          /\ acc.task.sharedWith[i].user = acc.user
          /\ Rank(acc.task.sharedWith[i].permission) >= Rank(acc.permission))

\* C3 (amended): for an actor who is neither owner nor assignee, access is
\* granted iff the FIRST sharedWith entry of the actor has rank(p) >= rank(r);
\* an actor with no sharedWith entry is denied every permission.
C3_FirstShareEntry ==
  (Evaluated /\ acc.user # acc.task.owner /\ acc.user \notin acc.task.assignees)
  => (acc.granted <=>
        \E i \in 1..Len(acc.task.sharedWith) :
          /\ acc.task.sharedWith[i].user = acc.user
          /\ \A j \in 1..(i-1) : acc.task.sharedWith[j].user # acc.user
          /\ Rank(acc.task.sharedWith[i].permission) >= Rank(acc.permission))

C3_Witness ==
  /\ Evaluated
  /\ acc.user # acc.task.owner
  /\ acc.user \notin acc.task.assignees
  /\ Len(acc.task.sharedWith) = 2
  /\ acc.task.sharedWith[1] = [user |-> acc.user, permission |-> "view"]
  /\ acc.task.sharedWith[2] = [user |-> acc.user, permission |-> "admin"]
  /\ acc.permission = "edit"
  /\ ~acc.granted

\* ---------------------------------------------------- claims: the rooms
ErrorTo(op, message) == <<Ev("error", op.conn, op.task, op.user, message, 0)>>

\* every member of a task room held view on the task when its join was admitted
MembersHeldView == \A t \in TaskIds : \A c \in taskRoom[t] : <<c, t>> \in joinView

\* a join:task handler run that finds the user unrelated to the task changes
\* no membership, and only the requester hears of it
DeniedJoinStep ==
  \A op \in pending :
    (JoinTask(op, FALSE) /\ ~RelatedTo(tasks[op.task], op.user))
    => /\ taskRoom' = taskRoom
       /\ \A d \in Conns :
            sent'[d] = IF d = op.conn /\ status[d] = "open"
                       THEN ErrorTo(op, "Access denied to task room")
                       ELSE <<>>

\* C4: a join:task by a user who is not owner, assignee or shared-with leaves
\* the membership of task:T unchanged, sends an error to the requesting
\* connection only and nothing to the members; every member of task:T held
\* at least view on T when it joined.
C4_JoinNeedsView == []MembersHeldView /\ [][DeniedJoinStep]_vars

C4_Witness ==
  \E c, d \in Conns, t \in TaskIds :
    /\ d # c
    /\ d \in taskRoom[t]
    /\ c \notin taskRoom[t]
    /\ status[c] = "open"
    /\ ~RelatedTo(tasks[t], userOf[c])
    /\ sent[c] = <<Ev("error", c, t, userOf[c], "Access denied to task room", 0)>>
    /\ sent[d] = <<>>

\* C5: when the access check of a task:update passes, every member of
\* task:X other than the publisher gets exactly one task:updated event, the
\* publisher gets none and no socket outside task:X gets any.
C5_TaskUpdatedFanOut ==
  [][\A op \in pending :
       (TaskUpdate(op, FALSE) /\ ~Denied(op.task, op.user, "edit"))
       => \A d \in Conns :
            sent'[d] = IF d \in taskRoom[op.task] /\ d # op.conn
                       THEN <<Ev("task:updated", op.conn, op.task, op.user, "", 0)>>
                       ELSE <<>>]_vars

C5_Witness ==
  \E c, d \in Conns, t \in TaskIds :
    /\ d # c
    /\ {c, d} \subseteq taskRoom[t]
    /\ sent[d] = <<Ev("task:updated", c, t, userOf[c], "", 0)>>
    /\ sent[c] = <<>>

\* C6 (as claimed): when the access check of a task:comment passes, the
\* comment event goes to every member of task:X except the originating
\* connection, which receives no copy of its own comment.
C6_CommentExceptOriginator ==
  [][\A op \in pending :
       (TaskComment(op, FALSE) /\ ~Denied(op.task, op.user, "view"))
       => \A d \in Conns :
            sent'[d] = IF d \in taskRoom[op.task] /\ d # op.conn
                       THEN <<Ev("task:comment:new", op.conn, op.task, op.user, "", 0)>>
                       ELSE <<>>]_vars

\* the inviter holds admin as the access rules of the claim define it
HoldsAdmin(task, u) ==
  /\ task.st = "live"
  /\ \/ task.owner = u
     \/ \E i \in 1..Len(task.sharedWith) :
          task.sharedWith[i].user = u /\ task.sharedWith[i].permission = "admin"

\* C7 (as claimed): an invite is accepted only when the inviter is owner or
\* shared at admin; otherwise the inviter gets an error and the invited user
\* nothing; an accepted invite reaches only the invited user's inbox room.
C7_InviteNeedsAdmin ==
  [][\A op \in pending :
       CollaborationInvite(op, FALSE)
       => IF HoldsAdmin(tasks[op.task], op.user)
          THEN \A d \in Conns :
                 Count(sent'[d], "collaboration:invited")
                   = IF d \in userRoom[op.target] THEN 1 ELSE 0
          ELSE \A d \in Conns :
                 sent'[d] = IF d = op.conn /\ status[d] = "open"
                            THEN ErrorTo(op, "Access denied for sending invites")
                            ELSE <<>>]_vars

\* the user has a live connection other than c
OtherLive(c, u) == \E d \in Conns \ {c} : status[d] = "open" /\ userOf[d] = u

Broadcasts(P) == {op \in P : op.kind = "presence"}

\* C8 (as claimed): opening a second connection of a user starts no online
\* broadcast, and closing one of two connections starts no offline broadcast.
C8_PresenceOnlyOnBoundary ==
  [][\A c \in Conns :
       /\ (\E u \in Users : Connect(c, u) /\ OtherLive(c, u))
            => Broadcasts(pending') = Broadcasts(pending)
       /\ (Disconnect(c) /\ OtherLive(c, userOf[c]))
            => Broadcasts(pending') = Broadcasts(pending)]_vars

\* u and v appear (as owner, assignee or shared-with) on a common task
Collaborates(u, v) ==
  v # u /\ \E t \in TaskIds : RelatedTo(tasks[t], u) /\ RelatedTo(tasks[t], v)

\* C9: a presence change of user U is delivered to the inbox room user:<V>
\* exactly for the users V # U with a task in common with U; U's own inbox
\* and the inboxes of users without a common task receive nothing.
C9_PresenceTargets ==
  [][\A op \in pending :
       BroadcastUserStatus(op, FALSE)
       => \A d \in Conns :
            sent'[d] = IF \E v \in Users : d \in userRoom[v] /\ Collaborates(op.user, v)
                       THEN <<Ev("user:status", op.conn, 0, op.user, op.arg, 0)>>
                       ELSE <<>>]_vars

C9_Witness ==
  \E c, d \in Conns :
    /\ status[c] = "open" /\ status[d] = "open"
    /\ userOf[c] # userOf[d]
    /\ \E t \in TaskIds :
         /\ tasks[t].st = "live"
         /\ tasks[t].owner = userOf[c]
         /\ userOf[d] \in SharedUsers(tasks[t])
    /\ sent[d] = <<Ev("user:status", c, 0, userOf[c], "online", 0)>>
    /\ sent[c] = <<>>

\* C10: a socket that has disconnected is in no room, neither its inbox nor
\* a task room, and nothing published afterwards is delivered to it.
C10_ClosedSocketUnreachable ==
  \A c \in Conns :
    status[c] = "closed"
    => /\ \A t \in TaskIds : c \notin taskRoom[t]
       /\ \A u \in Users : c \notin userRoom[u]
       /\ sent[c] = <<>>

\* a join admitted after the socket has gone: the members hear of it, the
\* closed socket is not added
C10_Witness ==
  \E c, d \in Conns, t \in TaskIds :
    /\ status[c] = "closed"
    /\ d \in taskRoom[t]
    /\ \E u \in Users : sent[d] = <<Ev("user:joined", c, t, u, "", 0)>>

\* ------------------------------------------- claims: join, leave, delete
\* the socket is connected: it is in the server's registry of live sockets
Registered(c) == status[c] = "open"

\* every member of a task room or an inbox room is a registered socket
RoomsHoldRegistered ==
  \A c \in Conns :
    (\/ \E t \in TaskIds : c \in taskRoom[t]
     \/ \E u \in Users : c \in userRoom[u]) => Registered(c)

\* a join:task handler run that resumes after its socket has disconnected
\* adds nothing to the room
LateJoinStep ==
  \A op \in pending :
    (JoinTask(op, FALSE) /\ ~Registered(op.conn)) => taskRoom' = taskRoom

\* C11: room membership never contains a connection that is not registered,
\* in every interleaving of join and disconnect; a join:task whose socket
\* disconnects while Task.findOne is awaited does not add the socket to
\* task:<id> when the query returns.
C11_MembersRegistered == []RoomsHoldRegistered /\ [][LateJoinStep]_vars

\* the query of a join returned after the disconnect and found the task: the
\* member hears of the join, the room is as it was
C11_Witness ==
  \E c, d \in Conns, t \in TaskIds, u \in Users :
    /\ ~Registered(c)
    /\ RelatedTo(tasks[t], u)
    /\ Registered(d)
    /\ d \in taskRoom[t]
    /\ c \notin taskRoom[t]
    /\ wasIn[t] = taskRoom[t]
    /\ sent[d] = <<Ev("user:joined", c, t, u, "", 0)>>

\* a join:task admitted for a socket that is already in the room leaves the
\* membership as it is
RejoinStep ==
  \A op \in pending :
    (JoinTask(op, FALSE) /\ op.conn \in taskRoom[op.task]) => taskRoom' = taskRoom

\* an accepted comment reaches every member of the room exactly once
CommentOnceStep ==
  \A op \in pending :
    (TaskComment(op, FALSE) /\ ~Denied(op.task, op.user, "view"))
    => \A d \in taskRoom[op.task] : Count(sent'[d], "task:comment:new") = 1

\* the events published into a task room
RoomEvents ==
  {"task:updated", "task:comment:new", "task:status:changed", "task:typing:status",
   "user:activity", "user:joined", "user:left"}

\* no socket is delivered two copies of a room event by one publish
NoDuplicateDelivery ==
  \A d \in Conns : \A type \in RoomEvents : Count(sent[d], type) <= 1

\* C12: join is idempotent: a second join:task on the same connection leaves
\* the room's membership set and size unchanged, and an event published to
\* the room is delivered to each member once, never twice.
C12_JoinIdempotent ==
  [][RejoinStep /\ CommentOnceStep]_vars /\ []NoDuplicateDelivery

\* the second join has been admitted: the socket was in the room before the
\* step, is in it after, and is told 'joined:task'
C12_Witness ==
  \E c \in Conns, t \in TaskIds :
    /\ c \in wasIn[t]
    /\ c \in taskRoom[t]
    /\ wasIn[t] = taskRoom[t]
    /\ sent[c] = <<Ev("joined:task", c, t, userOf[c], "", 0)>>

\* C13 (as claimed): a leave:task from a connection that is not a member of
\* task:<id> leaves the room's membership unchanged and delivers no
\* 'user:left' event to the members of the room.
C13_LeaveByNonMember ==
  [][\A c \in Conns, t \in TaskIds :
       (LeaveTask(c, t) /\ c \notin taskRoom[t])
       => /\ taskRoom' = taskRoom
          /\ \A d \in taskRoom[t] : Count(sent'[d], "user:left") = 0]_vars

\* C14 (as claimed): a 'task:typing', 'user:activity' or 'leave:task' message
\* from a connection whose user has no view access to task T (and so never
\* joined task:T) delivers nothing to the members of task:T.
C14_EphemeralNeedsAccess ==
  [][\A c \in Conns, t \in TaskIds :
       (/\ \/ TaskTyping(c, t)
           \/ UserActivity(c, "task_view", t)
           \/ LeaveTask(c, t)
        /\ tasks[t].st = "live"
        /\ ~RelatedTo(tasks[t], userOf[c]))
       => \A d \in taskRoom[t] : sent'[d] = <<>>]_vars

\* C15 (as claimed): when a task is deleted, every member of task:<taskId> is
\* delivered a TaskDeleted ('task:deleted') event and the room is torn down:
\* its membership is empty afterwards.
C15_TaskDeletedTearsDown ==
  [][\A t \in TaskIds :
       DeleteTask(t)
       => /\ \A d \in taskRoom[t] : Count(sent'[d], "task:deleted") = 1
          /\ taskRoom'[t] = {}]_vars

\* the answer the join handler gives a user without access
AccessDeniedToRoom == "Access denied to task room"

\* C16 (as claimed): after task T1 has been deleted, a join of task:T1 by a
\* user who had access (the connection joined the room before the delete) is
\* rejected with an error that tells NotFound apart from AccessDenied, and
\* the membership of task:T1 is not extended.
C16_JoinDeletedNotFound ==
  [][\A op \in pending :
       (/\ JoinTask(op, FALSE)
        /\ tasks[op.task].st = "deleted"
        /\ Registered(op.conn)
        /\ <<op.conn, op.task>> \in joinView)
       => /\ taskRoom' = taskRoom
          /\ Len(sent'[op.conn]) = 1
          /\ sent'[op.conn][1].type = "error"
          /\ sent'[op.conn][1].arg # AccessDeniedToRoom]_vars

\* a suspended task:update or task:status:change that passes its edit check
Accepted(op) ==
  op.kind \in {"update", "status"} /\ ~Denied(op.task, op.user, "edit")

\* the handler run resumes and broadcasts
Broadcast(op) == TaskUpdate(op, FALSE) \/ TaskStatusChange(op, FALSE)

\* the room broadcast of the handler run is delivered to socket d
Reaches(op, d) == d \in SocketTo(op.conn, taskRoom[op.task])

\* C17 (as claimed): events published to the same task room are delivered to
\* each member in publish order: the event of a later message is not
\* delivered to a member while the event of an earlier message for the same
\* room, due to the same member, still awaits its store read.
C17_RoomOrder ==
  [][\A i, j \in 1..Len(queue) :
       (/\ i < j
        /\ queue[i] # queue[j]
        /\ queue[i].task = queue[j].task
        /\ Accepted(queue[i])
        /\ Accepted(queue[j])
        /\ Broadcast(queue[j]))
       => \A d \in Conns : ~(Reaches(queue[i], d) /\ Reaches(queue[j], d))]_vars

\* ------------------------------------------- claims: privileged publishes
\* as the store stands, the user holds less than edit on the task: the task is
\* gone, or the user is not owner, not assignee and shared below edit
LacksEdit(task, u) ==
  \/ task.st # "live"
  \/ /\ task.owner # u
     /\ u \notin task.assignees
     /\ \A i \in 1..Len(task.sharedWith) :
          task.sharedWith[i].user = u => Rank(task.sharedWith[i].permission) < Rank("edit")

\* the rejection each handler answers a failed edit check with
EditDenied(op) ==
  ErrorTo(op, IF op.kind = "update" THEN "Access denied for task update"
              ELSE "Access denied for status change")

\* a task:update or task:status:change of a connection that joined with edit
\* and whose user has lost edit since: only the requester hears of it, and
\* the room keeps its members
StaleEditStep ==
  \A op \in pending :
    (/\ TaskUpdate(op, FALSE) \/ TaskStatusChange(op, FALSE)
     /\ <<op.conn, op.task>> \in joinEdit
     /\ LacksEdit(tasks[op.task], op.user))
    => /\ taskRoom' = taskRoom
       /\ \A d \in Conns :
            sent'[d] = IF d = op.conn /\ Registered(d) THEN EditDenied(op) ELSE <<>>

\* a member that has lost edit since its join is still delivered the updates
\* of the others
StaleMemberReceivesStep ==
  \A op \in pending :
    (TaskUpdate(op, FALSE) /\ ~Denied(op.task, op.user, "edit"))
    => \A d \in taskRoom[op.task] \ {op.conn} :
         (<<d, op.task>> \in joinEdit /\ LacksEdit(tasks[op.task], userOf[d]))
         => sent'[d] = <<Ev("task:updated", op.conn, op.task, op.user, "", 0)>>

\* C18: access is evaluated anew on every privileged publish, not cached from
\* join time: after a user who joined task:T with edit is downgraded to view
\* (or the task is gone), the user's task:update or task:status:change is
\* rejected and delivers nothing to the room, while the connection stays a
\* member of task:T and keeps receiving the room's events.
C18_AccessReevaluated == [][StaleEditStep /\ StaleMemberReceivesStep]_vars

C18_Witness ==
  \E c \in Conns, t \in TaskIds :
    /\ c \in taskRoom[t]
    /\ <<c, t>> \in joinEdit
    /\ tasks[t].st = "live"
    /\ tasks[t].owner # userOf[c]
    /\ userOf[c] \notin tasks[t].assignees
    /\ tasks[t].sharedWith = <<[user |-> userOf[c], permission |-> "view"]>>
    /\ sent[c] = <<Ev("error", c, t, userOf[c], "Access denied for task update", 0)>>

\* the permission each publishing handler asks for
Required(kind) ==
  CASE kind = "update" -> "edit"
    [] kind = "status" -> "edit"
    [] kind = "comment" -> "view"
    [] kind = "invite" -> "admin"

\* the rejection each publishing handler answers with
Rejection(kind) ==
  CASE kind = "update" -> "Access denied for task update"
    [] kind = "status" -> "Access denied for status change"
    [] kind = "comment" -> "Access denied for commenting"
    [] kind = "invite" -> "Access denied for sending invites"

\* the handler run resumes with the store's answer
Completes(op) ==
  \/ TaskUpdate(op, FALSE)
  \/ TaskStatusChange(op, FALSE)
  \/ TaskComment(op, FALSE)
  \/ CollaborationInvite(op, FALSE)

RejectedStep ==
  \A op \in pending :
    (/\ op.kind \in {"update", "status", "comment", "invite"}
     /\ Completes(op)
     /\ Denied(op.task, op.user, Required(op.kind)))
    => /\ taskRoom' = taskRoom
       /\ userRoom' = userRoom
       /\ \A d \in Conns :
            sent'[d] = IF d = op.conn /\ Registered(d)
                       THEN ErrorTo(op, Rejection(op.kind))
                       ELSE <<>>

\* C19: a task:update, task:status:change, task:comment or
\* collaboration:invite that fails its access check or names a task that does
\* not exist sends exactly one error event to the requesting connection,
\* delivers nothing to any other connection (task room or inbox) and changes
\* no room membership.
C19_RejectionToRequesterOnly == [][RejectedStep]_vars

\* an invite of a user shared at edit is rejected while the owner sits in
\* the room and in the invited user's inbox
C19_Witness ==
  \E c, d \in Conns, t \in TaskIds :
    /\ d # c
    /\ {c, d} \subseteq taskRoom[t]
    /\ tasks[t].st = "live"
    /\ tasks[t].owner = userOf[d]
    /\ tasks[t].sharedWith = <<[user |-> userOf[c], permission |-> "edit"]>>
    /\ d \in userRoom[userOf[d]]
    /\ sent[c] = <<Ev("error", c, t, userOf[c], "Access denied for sending invites", 0)>>
    /\ sent[d] = <<>>

\* a join:task whose Task.findOne throws: the room is as before, nobody but
\* the requester hears of it
FailedJoinStep ==
  \A op \in pending :
    JoinTask(op, TRUE)
    => /\ taskRoom' = taskRoom
       /\ \A d \in Conns :
            sent'[d] = IF d = op.conn /\ Registered(d)
                       THEN ErrorTo(op, "Failed to join task room")
                       ELSE <<>>

\* C20: every failure path of join leaves the membership as before: when the
\* Task Store read of join:task throws, the connection is not added to
\* task:<id>, no 'user:joined' reaches the members and the requester
\* receives an error; the connection is never left half-joined.
C20_FailedJoinNoChange == [][FailedJoinStep]_vars

\* the read failed for a user the task would have admitted
C20_Witness ==
  \E c, d \in Conns, t \in TaskIds :
    /\ d # c
    /\ RelatedTo(tasks[t], userOf[c])
    /\ c \notin taskRoom[t]
    /\ d \in taskRoom[t]
    /\ wasIn[t] = taskRoom[t]
    /\ sent[c] = <<Ev("error", c, t, userOf[c], "Failed to join task room", 0)>>
    /\ sent[d] = <<>>

\* ------------------------------------------------ claims: the registry
\* the live connections of a user
connectionsOf(u) == {c \in Conns : Registered(c) /\ userOf[c] = u}

\* C21 (as claimed): the registry tracks every live connection of a user: it
\* reports a user as absent only when the user has no live connection, and
\* the connection it holds for a user is one of the user's live connections
\* (after one of two connections has gone, the surviving one).
C21_RegistryTracksLive ==
  \A u \in Users :
    IF connectionsOf(u) = {} THEN connectedUsers[u] = 0
    ELSE connectedUsers[u] \in connectionsOf(u)

\* ------------------------------------------------ claims: targeting
\* C22: when the access check of a task:status:change passes, every member
\* of task:X other than the publisher is delivered one task:status:changed
\* event, the publisher none and no socket outside task:X any.
C22_StatusChangedFanOut ==
  [][\A op \in pending :
       (TaskStatusChange(op, FALSE) /\ ~Denied(op.task, op.user, "edit"))
       => \A d \in Conns :
            /\ Count(sent'[d], "task:status:changed")
                 = IF d \in taskRoom[op.task] /\ d # op.conn THEN 1 ELSE 0
            /\ \A i \in 1..Len(sent'[d]) :
                 sent'[d][i].type = "task:status:changed"
                 => sent'[d][i] = Ev("task:status:changed", op.conn, op.task, op.user, "", 0)]_vars

C22_Witness ==
  \E c, d \in Conns, t \in TaskIds :
    /\ d # c
    /\ {c, d} \subseteq taskRoom[t]
    /\ Count(sent[d], "task:status:changed") = 1
    /\ sent[d][1] = Ev("task:status:changed", c, t, userOf[c], "", 0)
    /\ Count(sent[c], "task:status:changed") = 0

\* C23: a task:typing message of connection C for task X delivers one
\* task:typing:status event to every member of task:X other than C, none
\* to C and none to sockets outside task:X.
C23_TypingFanOut ==
  [][\A c \in Conns, t \in TaskIds :
       TaskTyping(c, t)
       => \A d \in Conns :
            sent'[d] = IF d \in taskRoom[t] /\ d # c
                       THEN <<Ev("task:typing:status", c, t, userOf[c], "", 0)>>
                       ELSE <<>>]_vars

C23_Witness ==
  \E c, d \in Conns, t \in TaskIds :
    /\ d # c
    /\ {c, d} \subseteq taskRoom[t]
    /\ sent[d] = <<Ev("task:typing:status", c, t, userOf[c], "", 0)>>
    /\ sent[c] = <<>>

\* a leave:task of a member: the socket is taken out of the room, each
\* remaining member is delivered one 'user:left', the leaving socket none
MemberLeaveStep ==
  \A c \in Conns, t \in TaskIds :
    (c \in taskRoom[t] /\ LeaveTask(c, t))
    => /\ taskRoom'[t] = taskRoom[t] \ {c}
       /\ \A d \in Conns :
            Count(sent'[d], "user:left") = IF d \in taskRoom[t] \ {c} THEN 1 ELSE 0

\* a room event is only ever delivered to a socket that was in the task's
\* room when the event was published
RoomEventsToMembers ==
  \A d \in Conns : \A i \in 1..Len(sent[d]) :
    sent[d][i].type \in RoomEvents => d \in wasIn[sent[d][i].task]

\* C24: a leave:task of a member removes the connection from the room, every
\* remaining member is delivered one 'user:left', the leaving connection is
\* not, and nothing published to the room afterwards is delivered to it.
C24_MemberLeaves == [][MemberLeaveStep]_vars /\ []RoomEventsToMembers

C24_Witness ==
  \E c, d \in Conns, t \in TaskIds :
    /\ d # c
    /\ c \in wasIn[t]
    /\ taskRoom[t] = {d}
    /\ sent[d] = <<Ev("user:left", c, t, userOf[c], "", 0)>>
    /\ sent[c] = <<Ev("left:task", c, t, userOf[c], "", 0)>>

\* every member of an inbox room user:<u> is a socket authenticated as u
InboxOwnOnly == \A u \in Users : \A c \in userRoom[u] : userOf[c] = u

\* registration puts the socket into its own inbox room
InboxJoinStep == \A c \in Conns, u \in Users : Connect(c, u) => c \in userRoom'[u]

\* only registration and disconnection change the inbox rooms
InboxFrameStep ==
  userRoom' # userRoom
  => \E c \in Conns : Disconnect(c) \/ \E u \in Users : Connect(c, u)

\* C25: on registration a connection is joined to user:<its own userId>; a
\* connection is a member of user:<u> only if its authenticated user is u;
\* no client message makes a connection join another user's inbox room.
C25_InboxOwnOnly == []InboxOwnOnly /\ [][InboxJoinStep /\ InboxFrameStep]_vars

C25_Witness ==
  \E c, d \in Conns :
    /\ userOf[c] # 0 /\ userOf[d] # 0
    /\ userOf[c] # userOf[d]
    /\ userRoom[userOf[c]] = {c}
    /\ userRoom[userOf[d]] = {d}
    /\ sent[d] = <<Ev("connected", d, 0, userOf[d], "", 0)>>

\* ------------------------------------------------ claims: presence order
\* the sockets a presence broadcast of user u is delivered to
PresenceReaches(u) ==
  {d \in Conns : \E v \in collaborators(u) : d \in IoTo(userRoom[v])}

\* C26 (as claimed): for a user who connects and then disconnects, with no
\* connection left, the offline broadcast is not overtaken by the earlier
\* online broadcast: 'offline' is not delivered to a collaborator while the
\* 'online' broadcast started before it still awaits its Task Store query
\* (and would reach the same collaborator after it, as the last event).
C26_OfflineLast ==
  [][\A i, j \in 1..Len(queue) :
       (/\ i < j
        /\ queue[i].kind = "presence" /\ queue[i].arg = "online"
        /\ queue[j].kind = "presence" /\ queue[j].arg = "offline"
        /\ queue[i].user = queue[j].user
        /\ connectionsOf(queue[j].user) = {}
        /\ BroadcastUserStatus(queue[j], FALSE))
       => PresenceReaches(queue[j].user) = {}]_vars

\* C28 (as claimed): when a connection that is a member of task rooms
\* disconnects, the remaining members of each of those rooms are delivered
\* a 'user:left' event with reason 'disconnected'.
C28_DisconnectAnnounced ==
  [][\A c \in Conns :
       Disconnect(c)
       => \A t \in TaskIds :
            c \in taskRoom[t]
            => \A d \in taskRoom[t] \ {c} :
                 sent'[d] = <<Ev("user:left", c, t, userOf[c], "disconnected", 0)>>]_vars

\* ------------------------------------------------ claims: notifications
\* C27 (as claimed): for one accepted task:status:change on task T, every
\* socket in the inbox room of a user who is owner, assignee or shared-with
\* and is not the originating user is delivered exactly one 'notification'
\* (also when the user appears in more than one of owner / assignees /
\* sharedWith); the originating user and unrelated users are delivered none.
C27_OneNotificationEach ==
  [][\A op \in pending :
       (TaskStatusChange(op, FALSE) /\ ~Denied(op.task, op.user, "edit"))
       => \A d \in Conns :
            Count(sent'[d], "notification")
              = IF \E v \in Users : /\ d \in userRoom[v]
                                    /\ v # op.user
                                    /\ RelatedTo(tasks[op.task], v)
                THEN 1 ELSE 0]_vars

\* ------------------------------------------------ claims: task update route
\* C29 (as claimed): after any sequence of PUT /api/tasks/:id updates, also
\* updates that change only the title, completedAt and completedBy are set
\* if the status is 'completed' and unset otherwise.
C29_CompletionBookkeeping ==
  IF fields.status = "completed"
  THEN fields.completedAt /\ fields.completedBy # 0
  ELSE ~fields.completedAt /\ fields.completedBy = 0

\* ------------------------------------------------ claims: client service
\* the sockets of the service that are open
OpenSockets == {n \in Socks : clientSockets[n] = "open"}

\* C30 (as claimed): the client SocketService never has more than one open
\* socket, whatever the interleaving of connect(), disconnect() and the
\* transport's 'connect' / 'disconnect' events, and after disconnect() no
\* socket the service created is open.
C30_OneLiveSocket ==
  /\ [](Cardinality(OpenSockets) <= 1)
  /\ [][ClientDisconnect => OpenSockets' = {}]_vars

====
